---- MODULE Spec2Model ----
(***************************************************************************)
(* Heading-outline extraction (src/src/heading_extractor.py) and the batch  *)
(* driver (src/src/main.py).  Texts are sequences of one-character strings, *)
(* rectangles are <<x0, y0, x1, y1>> with integer coordinates.              *)
(***************************************************************************)
EXTENDS Integers, Sequences, FiniteSets, TLC

(***************************************************************************)
(* Text primitives: what str.strip, str.split, str.lower, str.startswith,   *)
(* str.count and " ".join compute.                                          *)
(***************************************************************************)
UpperLetters == <<"A","B","C","D","E","F","G","H","I","J","K","L","M",
                  "N","O","P","Q","R","S","T","U","V","W","X","Y","Z">>

LowerLetters == <<"a","b","c","d","e","f","g","h","i","j","k","l","m",
                  "n","o","p","q","r","s","t","u","v","w","x","y","z">>

Range(s) == {s[i] : i \in 1..Len(s)}

UpperSet == Range(UpperLetters)

LowerSet == Range(LowerLetters)

WordCharSet ==
    UpperSet \cup LowerSet \cup {"0","1","2","3","4","5","6","7","8","9","_"}

\* str.lower() on the letters A-Z.
LowerOf == [c \in UpperSet |-> LowerLetters[CHOOSE i \in 1..26 : UpperLetters[i] = c]]

IsSpace(c) == c \in {" ", "\t", "\n"}

IsDigit(c) == c \in {"0","1","2","3","4","5","6","7","8","9"}

IsWordChar(c) == c \in WordCharSet

LowerChar(c) == IF c \in UpperSet THEN LowerOf[c] ELSE c

Lower(t) == [i \in 1..Len(t) |-> LowerChar(t[i])]

RECURSIVE LStrip(_)
LStrip(t) == IF t # <<>> /\ IsSpace(Head(t)) THEN LStrip(Tail(t)) ELSE t

RECURSIVE RStrip(_)
RStrip(t) ==
    IF t # <<>> /\ IsSpace(t[Len(t)]) THEN RStrip(SubSeq(t, 1, Len(t) - 1)) ELSE t

Strip(t) == RStrip(LStrip(t))

StartsWith(t, p) == Len(t) >= Len(p) /\ SubSeq(t, 1, Len(p)) = p

EndsWith(t, c) == t # <<>> /\ t[Len(t)] = c

Count(t, c) == Cardinality({i \in 1..Len(t) : t[i] = c})

\* len(text.split()): the number of maximal runs of non-whitespace.
WordCount(t) ==
    Cardinality({i \in 1..Len(t) : ~IsSpace(t[i]) /\ (i = 1 \/ IsSpace(t[i-1]))})

\* " ".join(parts)
RECURSIVE JoinSpace(_)
JoinSpace(parts) ==
    IF parts = <<>> THEN <<>>
    ELSE IF Len(parts) = 1 THEN parts[1]
    ELSE parts[1] \o <<" ">> \o JoinSpace(Tail(parts))

\* n copies of t, one after the other.
RECURSIVE Rep(_, _)
Rep(t, n) == IF n <= 0 THEN <<>> ELSE t \o Rep(t, n - 1)

(***************************************************************************)
(* GENERIC_JUNK_PATTERNS: every pattern is applied with re.match, that is,  *)
(* anchored at the first character of the text.                             *)
(***************************************************************************)
\* First index >= i whose character is not in the class (Len(t)+1 if none).
SkipSpaces(t, i) ==
    CHOOSE j \in i..(Len(t) + 1) :
        (\A k \in i..(j - 1) : IsSpace(t[k])) /\ (j = Len(t) + 1 \/ ~IsSpace(t[j]))

SkipDigits(t, i) ==
    CHOOSE j \in i..(Len(t) + 1) :
        (\A k \in i..(j - 1) : IsDigit(t[k])) /\ (j = Len(t) + 1 \/ ~IsDigit(t[j]))

SkipWordChars(t, i) ==
    CHOOSE j \in i..(Len(t) + 1) :
        (\A k \in i..(j - 1) : IsWordChar(t[k])) /\ (j = Len(t) + 1 \/ ~IsWordChar(t[j]))

SkipNonSpaces(t, i) ==
    CHOOSE j \in i..(Len(t) + 1) :
        (\A k \in i..(j - 1) : ~IsSpace(t[k])) /\ (j = Len(t) + 1 \/ IsSpace(t[j]))

\* ^(page|p\.)\s*\d+\s*$  (IGNORECASE)
MatchPageNumber(t) ==
    LET l == Lower(t)
        AfterPrefix(p) ==
            LET a == SkipSpaces(l, Len(p) + 1)
                b == SkipDigits(l, a)
                c == SkipSpaces(l, b)
            IN  b > a /\ c = Len(l) + 1
    IN  \E p \in {<<"p","a","g","e">>, <<"p",".">>} : StartsWith(l, p) /\ AfterPrefix(p)

\* ^\d+$
MatchDigits(t) == t # <<>> /\ \A i \in 1..Len(t) : IsDigit(t[i])

\* ^(www\.|http|https)  (IGNORECASE)
MatchUrl(t) ==
    LET l == Lower(t)
    IN  \E p \in {<<"w","w","w",".">>, <<"h","t","t","p">>, <<"h","t","t","p","s">>} :
            StartsWith(l, p)

\* @\w+\.\w+ under re.match: the '@' has to be the first character.
MatchEmail(t) ==
    LET a == SkipWordChars(t, 2)
    IN  /\ t # <<>> /\ t[1] = "@"
        /\ a > 2
        /\ a <= Len(t) /\ t[a] = "."
        /\ a + 1 <= Len(t) /\ IsWordChar(t[a + 1])

\* The non-ASCII characters the code names, each one character of a text.
Bullet == "u2022"

BlackCircle == "u25CF"

Rupee == "u20B9"

\* ^\s*[u2022\-]\s*$
MatchBullet(t) ==
    LET a == SkipSpaces(t, 1)
    IN  /\ a <= Len(t) /\ t[a] \in {Bullet, "-"}
        /\ SkipSpaces(t, a + 1) = Len(t) + 1

FormLabels ==
    { <<"d","a","t","e">>, <<"s","i","g","n","a","t","u","r","e">>, <<"f","o","r">>,
      <<"t","i","m","e">>, <<"a","d","d","r","e","s","s">>, <<"r","s","v","p">>,
      <<"p","h","o","n","e">>, <<"e","m","a","i","l">> }

IsSpaceOrColon(c) == IsSpace(c) \/ c = ":"

\* ^(date|signature|for|time|address|rsvp|phone|email)[\s:]*$  (IGNORECASE)
MatchFormLabel(t) ==
    LET l == Lower(t)
    IN  \E p \in FormLabels :
            StartsWith(l, p) /\ \A i \in (Len(p) + 1)..Len(t) : IsSpaceOrColon(t[i])

FormWords ==
    { <<"c","l","o","s","e","d">>, <<"p","a","r","e","n","t","s">>,
      <<"p","l","e","a","s","e">>, <<"h","o","p","e">> }

IsSpaceOrWord(c) == IsSpace(c) \/ IsWordChar(c)

\* ^(closed|parents|please|hope)[\s\w]*$  (IGNORECASE)
MatchFormText(t) ==
    LET l == Lower(t)
    IN  \E p \in FormWords :
            StartsWith(l, p) /\ \A i \in (Len(p) + 1)..Len(t) : IsSpaceOrWord(t[i])

\* any(p.match(text) for p in GENERIC_JUNK_PATTERNS)
MatchesJunkPattern(t) ==
    \/ MatchPageNumber(t)
    \/ MatchDigits(t)
    \/ MatchUrl(t)
    \/ MatchEmail(t)
    \/ MatchBullet(t)
    \/ MatchFormLabel(t)
    \/ MatchFormText(t)

\* is_simple_junk(text)
is_simple_junk(text) ==
    LET t == Strip(text)
    IN  \/ t = <<>>
        \/ MatchesJunkPattern(t)
        \/ Len(t) < 2
        \/ Count(t, "_") > Len(t) \div 2
        \/ Count(t, "-") > Len(t) \div 2
        \/ (Count(t, " ") = 0 /\ Len(t) > 50)

\* Python's `p in t` for strings: p occurs somewhere in t.
Contains(t, p) == \E i \in 1..(Len(t) - Len(p) + 1) : SubSeq(t, i, i + Len(p) - 1) = p

\* text.split(): the words of t in order.
RECURSIVE Split(_)
Split(t) ==
    LET u == LStrip(t)
        e == SkipNonSpaces(u, 1)
    IN  IF u = <<>> THEN <<>>
        ELSE <<SubSeq(u, 1, e - 1)>> \o Split(SubSeq(u, e, Len(u)))

\* str.isupper(): some cased character, and no lower-case one.
IsUpper(t) ==
    /\ \E i \in 1..Len(t) : t[i] \in UpperSet
    /\ \A i \in 1..Len(t) : t[i] \notin LowerSet

\* round(x) of Python 3 on a size given in tenths: halves go to the even integer.
Round10(s) ==
    LET q == s \div 10
        r == s % 10
    IN  IF r < 5 THEN q
        ELSE IF r > 5 THEN q + 1
        ELSE IF q % 2 = 0 THEN q ELSE q + 1

Abs(x) == IF x < 0 THEN 0 - x ELSE x

Max(a, b) == IF a >= b THEN a ELSE b

Min(a, b) == IF a <= b THEN a ELSE b

(***************************************************************************)
(* fitz.Rect on <<x0, y0, x1, y1>>.                                         *)
(***************************************************************************)
RectWidth(r) == Max(0, r[3] - r[1])

RectHeight(r) == Max(0, r[4] - r[2])

RectIsEmpty(r) == r[1] >= r[3] \/ r[2] >= r[4]

\* rect + (a, b, c, d)
RectAdd(r, d) == <<r[1] + d[1], r[2] + d[2], r[3] + d[3], r[4] + d[4]>>

RectGrow(r, m) == RectAdd(r, <<0 - m, 0 - m, m, m>>)

\* Rect.intersects: the two rectangles share an area (touching edges do not).
RectIntersects(a, b) ==
    /\ ~RectIsEmpty(a) /\ ~RectIsEmpty(b)
    /\ Max(a[1], b[1]) < Min(a[3], b[3])
    /\ Max(a[2], b[2]) < Min(a[4], b[4])

\* Rect.contains(rect)
RectContains(a, b) ==
    RectIsEmpty(b) \/ (a[1] <= b[1] /\ b[3] <= a[3] /\ a[2] <= b[2] /\ b[4] <= a[4])

\* a | b : the bounding box of both; an empty operand adds nothing.
RectUnion(a, b) ==
    IF RectIsEmpty(b) THEN a
    ELSE IF RectIsEmpty(a) THEN b
    ELSE <<Min(a[1], b[1]), Min(a[2], b[2]), Max(a[3], b[3]), Max(a[4], b[4])>>

MergeMargin == 8

TextMargin == 2

BoxPadding == 3

RectExpand == 5

MinRectWidth == 30

MinRectHeight == 15

IndentTolerance == 15

\* list.sort(key=lambda x: (y0, x0)): stable, so equal keys keep their order.
AreaKeyLess(a, b) == a[2] < b[2] \/ (a[2] = b[2] /\ a[1] < b[1])

RECURSIVE InsertArea(_, _)
InsertArea(sorted, a) ==
    IF sorted = <<>> THEN <<a>>
    ELSE IF AreaKeyLess(a, Head(sorted)) THEN <<a>> \o sorted
    ELSE <<Head(sorted)>> \o InsertArea(Tail(sorted), a)

RECURSIVE SortAreas(_)
SortAreas(areas) ==
    IF areas = <<>> THEN <<>>
    ELSE InsertArea(SortAreas(SubSeq(areas, 1, Len(areas) - 1)), areas[Len(areas)])

\* One turn of the loop `for area in excluded_areas`: the first accumulated area
\* whose 8-unit expansion intersects `area` becomes the union, else append.
MergeOne(final_areas, area) ==
    LET hits == {i \in 1..Len(final_areas) :
                    RectIntersects(RectGrow(final_areas[i], MergeMargin), area)}
    IN  IF hits = {} THEN Append(final_areas, area)
        ELSE LET i == CHOOSE k \in hits : \A m \in hits : k <= m
             IN  [final_areas EXCEPT ![i] = RectUnion(final_areas[i], area)]

RECURSIVE MergeFold(_, _)
MergeFold(final_areas, areas) ==
    IF areas = <<>> THEN final_areas
    ELSE MergeFold(MergeOne(final_areas, Head(areas)), Tail(areas))

\* Lines 108-124: sort, then fold.
MergeAreas(excluded_areas) == MergeFold(<<>>, SortAreas(excluded_areas))

(***************************************************************************)
(* The layout provider's page: width, height, tables (bounding boxes of     *)
(* page.find_tables), drawings (records, with a rect field when the drawing  *)
(* has one) and blocks; a block has a type (0 = text), a bbox and lines; a   *)
(* line a bbox and spans; a span a text, a size in tenths, a font and flags. *)
(***************************************************************************)
\* Lines 55-59: the texts of all spans, each followed by a space, stripped.
RECURSIVE SpanTexts(_)
SpanTexts(spans) ==
    IF spans = <<>> THEN <<>>
    ELSE spans[1].text \o <<" ">> \o SpanTexts(Tail(spans))

RECURSIVE LinesText(_)
LinesText(lines) ==
    IF lines = <<>> THEN <<>>
    ELSE SpanTexts(lines[1].spans) \o LinesText(Tail(lines))

BlockText(block) == Strip(LinesText(block.lines))

SectionWords == { <<"p","a","t","h","w","a","y">>, <<"o","p","t","i","o","n","s">>, <<"s","e","c","t","i","o","n">>, <<"c","h","a","p","t","e","r">>, <<"p","a","r","t">> }

box_indicators ==
    { <<"m","i","s","s","i","o","n"," ","s","t","a","t","e","m","e","n","t",":">>, <<"g","o","a","l","s",":">>, <<"o","b","j","e","c","t","i","v","e","s",":">>, <<"s","u","m","m","a","r","y",":">>, <<"a","b","s","t","r","a","c","t",":">>,
      <<"n","o","t","e",":">>, <<"i","m","p","o","r","t","a","n","t",":">>, <<"w","a","r","n","i","n","g",":">>, <<"c","a","u","t","i","o","n",":">>, <<"d","e","f","i","n","i","t","i","o","n",":">>,
      <<"e","x","a","m","p","l","e",":">>, <<"k","e","y"," ","p","o","i","n","t","s",":">>, <<"h","i","g","h","l","i","g","h","t","s",":">> }

\* Lines 62-66: a short block that is all upper case or names a section word.
LooksLikeHeading(block_text) ==
    LET words == Split(block_text)
    IN  /\ Len(words) <= 5 /\ Len(block_text) < 50
        /\ \/ IsUpper(block_text)
           \/ \E i \in 1..Len(words) : Lower(words[i]) \in SectionWords

\* Lines 91-93: the other blocks whose first line starts within 15 units.
similar_indent_count(blocks, block, first_line_x) ==
    Cardinality({j \in 1..Len(blocks) :
        /\ blocks[j] # block
        /\ blocks[j].lines # <<>>
        /\ Abs(blocks[j].lines[1].bbox[1] - first_line_x) < IndentTolerance})

\* Lines 77-95: the prose branch.
ProseIsBoxed(page, rects, block) ==
    LET block_bbox == block.bbox
        first_line_x == block.lines[1].bbox[1]
    IN  /\ block.lines # <<>>
        /\ first_line_x * 100 > page.width * 8
        /\ RectWidth(block_bbox) * 100 < page.width * 85
        /\ \/ \E i \in 1..Len(rects) :
                 \/ RectContains(RectGrow(rects[i], RectExpand), block_bbox)
                 \/ RectIntersects(rects[i], block_bbox)
           \/ similar_indent_count(page.blocks, block, first_line_x) <= 1

\* Lines 50-102: is_boxed_content for one block.
is_boxed_content(page, rects, block) ==
    LET block_text == BlockText(block)
        words == Split(block_text)
        lowered == Lower(block_text)
    IN  IF block.type # 0 \/ LooksLikeHeading(block_text) THEN FALSE
        ELSE IF \E ind \in box_indicators : StartsWith(lowered, ind) THEN TRUE
        ELSE IF Len(words) > 10 /\ Len(block_text) > 100
             THEN ProseIsBoxed(page, rects, block)
        ELSE IF \/ Contains(block_text, <<Bullet>>)
                \/ Contains(block_text, <<BlackCircle>>)
                \/ Count(block_text, "\n") > 2
             THEN \E i \in 1..Len(rects) : RectIntersects(rects[i], block.bbox)
        ELSE FALSE

\* Lines 37-43: the drawn rectangles wider than 30 and higher than 15.
RECURSIVE DrawnRects(_)
DrawnRects(drawings) ==
    IF drawings = <<>> THEN <<>>
    ELSE LET d == Head(drawings)
             keep == /\ "rect" \in DOMAIN d
                     /\ RectWidth(d.rect) > MinRectWidth
                     /\ RectHeight(d.rect) > MinRectHeight
         IN  (IF keep THEN <<d.rect>> ELSE <<>>) \o DrawnRects(Tail(drawings))

\* Lines 50-103: the padded boxes of the blocks classified as boxed.
RECURSIVE BoxedAreas(_, _, _)
BoxedAreas(page, rects, blocks) ==
    IF blocks = <<>> THEN <<>>
    ELSE (IF is_boxed_content(page, rects, Head(blocks))
          THEN <<RectGrow(Head(blocks).bbox, BoxPadding)>> ELSE <<>>)
         \o BoxedAreas(page, rects, Tail(blocks))

\* The external calls of the try block that can raise, and "none".
RegionFaults == {"none", "find_tables", "get_drawings", "get_text"}

\* Lines 28-106: excluded_areas when the try block is left, normally or by the
\* exception of the call `fault`: what was appended before it stays in the list.
CollectAreas(page, fault) ==
    LET rects == DrawnRects(page.drawings)
    IN  IF fault = "find_tables" THEN <<>>
        ELSE IF fault = "get_drawings" THEN page.tables
        ELSE IF fault = "get_text" THEN page.tables \o rects
        ELSE page.tables \o rects \o BoxedAreas(page, rects, page.blocks)

\* get_table_areas(page)
get_table_areas(page, fault) == MergeAreas(CollectAreas(page, fault))

\* is_text_in_table(text_bbox, excluded_areas, margin=2)
is_text_in_table(text_bbox, excluded_areas) ==
    \E i \in 1..Len(excluded_areas) :
        RectIntersects(text_bbox, RectGrow(excluded_areas[i], TextMargin))

(***************************************************************************)
(* extract_title_from_document.  A document is [metadata_title, pages,      *)
(* openable]; metadata_title is <<>> when the metadata has no title.  A page *)
(* carries `fault`: the external call that raises on it ("none" for none).   *)
(***************************************************************************)
\* The lines of a page in block order (block.get("lines", [])).
RECURSIVE PageLines(_)
PageLines(blocks) ==
    IF blocks = <<>> THEN <<>> ELSE Head(blocks).lines \o PageLines(Tail(blocks))

\* " ".join(s["text"] for s in spans).strip()
LineText(line) == Strip(JoinSpace([i \in 1..Len(line.spans) |-> line.spans[i].text]))

TitlePrefixes == { <<"p","a","g","e"," ">>, <<"f","i","g","u","r","e"," ">>, <<"t","a","b","l","e"," ">> }

\* Lines 159-174: whether the line is kept as a title candidate.
IsTitleCandidate(page, excluded_areas, line) ==
    LET text == LineText(line)
    IN  /\ line.spans # <<>>
        /\ ~is_text_in_table(line.bbox, excluded_areas)
        /\ ~(page.height > 0 /\ line.bbox[2] * 10 > 4 * page.height)
        /\ text # <<>>
        /\ Len(text) >= 3
        /\ ~MatchesJunkPattern(text)
        /\ LET l == Lower(text) IN ~\E p \in TitlePrefixes : StartsWith(l, p)
        /\ Len(text) <= 200

\* Lines 176-181.  position is bbox[1] / page_height: all candidates are of one
\* page, so positions compare as the top edges do (0 when the height is 0).
TitleCandidate(page, line) ==
    [ text      |-> LineText(line),
      font_size |-> Round10(line.spans[1].size),
      position  |-> IF page.height > 0 THEN line.bbox[2] ELSE 0,
      length    |-> Len(LineText(line)) ]

RECURSIVE TitleCandidates(_, _, _)
TitleCandidates(page, excluded_areas, lines) ==
    IF lines = <<>> THEN <<>>
    ELSE (IF IsTitleCandidate(page, excluded_areas, Head(lines))
          THEN <<TitleCandidate(page, Head(lines))>> ELSE <<>>)
         \o TitleCandidates(page, excluded_areas, Tail(lines))

CandidateBeforeBottomFirst(a, b) ==
    \/ a.font_size > b.font_size
    \/ (a.font_size = b.font_size /\ a.position > b.position)

\* sort(key=(font_size, -position), reverse=True): a comes strictly before b.
CandidateBefore(a, b) ==
    \/ a.font_size > b.font_size
    \/ (a.font_size = b.font_size /\ a.position < b.position)

\* The sort is stable, also with reverse=True: equal keys keep their order.
RECURSIVE InsertCandidate(_, _)
InsertCandidate(sorted, c) ==
    IF sorted = <<>> THEN <<c>>
    ELSE IF CandidateBefore(c, Head(sorted)) THEN <<c>> \o sorted
    ELSE <<Head(sorted)>> \o InsertCandidate(Tail(sorted), c)

RECURSIVE SortCandidates(_)
SortCandidates(cs) ==
    IF cs = <<>> THEN <<>>
    ELSE InsertCandidate(SortCandidates(SubSeq(cs, 1, Len(cs) - 1)), cs[Len(cs)])

\* Line 187
TitleQualifies(text) ==
    /\ 3 <= WordCount(text) /\ WordCount(text) <= 20
    /\ ~EndsWith(text, ".")
    /\ Len(text) >= 10

\* Lines 183-189 and 194.
PickTitle(title_candidates) ==
    LET sorted == SortCandidates(title_candidates)
        good == {i \in 1..Len(sorted) : TitleQualifies(sorted[i].text)}
    IN  IF sorted = <<>> THEN <<>>
        ELSE IF good # {} THEN sorted[CHOOSE i \in good : \A j \in good : i <= j].text
        ELSE sorted[1].text

MetadataTitleUsedUntrimmed(doc) ==
    /\ doc.metadata_title # <<>>
    /\ Len(doc.metadata_title) < 100

\* Lines 141-145: the metadata title, when it is used.
MetadataTitleUsed(doc) ==
    /\ doc.metadata_title # <<>>
    /\ Strip(doc.metadata_title) # <<>>
    /\ Len(Strip(doc.metadata_title)) < 100

\* Lines 147-194: the title from the first page; get_text raising inside the
\* try block gives "".
LayoutTitle(doc) ==
    LET first_page == doc.pages[1]
        excluded_areas == get_table_areas(first_page, first_page.fault)
    IN  IF first_page.fault = "get_text" THEN <<>>
        ELSE PickTitle(TitleCandidates(first_page, excluded_areas,
                                       PageLines(first_page.blocks)))

\* extract_title_from_document(doc)
extract_title_from_document(doc) ==
    IF MetadataTitleUsed(doc) THEN Strip(doc.metadata_title) ELSE LayoutTitle(doc)

(***************************************************************************)
(* extract_outline: the font histogram, the level map, the per-page loop.   *)
(***************************************************************************)
\* font_counts[size] += 1 on a Counter kept as <<[size, count], ...>> in the
\* order of first insertion (the order most_common breaks ties by).
CounterAdd(font_counts, size) ==
    IF \E i \in 1..Len(font_counts) : font_counts[i].size = size
    THEN [i \in 1..Len(font_counts) |->
            IF font_counts[i].size = size
            THEN [font_counts[i] EXCEPT !.count = @ + 1] ELSE font_counts[i]]
    ELSE Append(font_counts, [size |-> size, count |-> 1])

\* Lines 279-282
RECURSIVE CountSpans(_, _)
CountSpans(font_counts, spans) ==
    IF spans = <<>> THEN font_counts
    ELSE LET size == Round10(Head(spans).size)
         IN  CountSpans(IF size > 0 THEN CounterAdd(font_counts, size) ELSE font_counts,
                        Tail(spans))

\* Lines 273-282
RECURSIVE CountLines(_, _, _)
CountLines(font_counts, excluded_areas, lines) ==
    IF lines = <<>> THEN font_counts
    ELSE CountLines(IF is_text_in_table(Head(lines).bbox, excluded_areas)
                    THEN font_counts
                    ELSE CountSpans(font_counts, Head(lines).spans),
                    excluded_areas, Tail(lines))

\* Lines 260-282 for one page.
HistogramOfPage(font_counts, page) ==
    CountLines(font_counts, get_table_areas(page, page.fault), PageLines(page.blocks))

CounterSizes(font_counts) == {font_counts[i].size : i \in 1..Len(font_counts)}

\* font_counts.most_common(1)[0][0]: the first size of maximal count.
BodySize(font_counts) ==
    LET best == {i \in 1..Len(font_counts) :
                    \A j \in 1..Len(font_counts) : font_counts[j].count <= font_counts[i].count}
    IN  font_counts[CHOOSE i \in best : \A j \in best : i <= j].size

\* sorted(..., reverse=True) of a set of integers.
RECURSIVE SortDescending(_)
SortDescending(S) ==
    IF S = {} THEN <<>>
    ELSE LET m == CHOOSE x \in S : \A y \in S : y <= x
         IN  <<m>> \o SortDescending(S \ {m})

HeadingSizesWithBody(font_counts, body_size) ==
    SortDescending({z \in CounterSizes(font_counts) : z >= body_size})

\* Line 290
HeadingSizes(font_counts, body_size) ==
    SortDescending({z \in CounterSizes(font_counts) : z > body_size})

\* f"H{n}"
LevelName(n) == <<"H", n>>

\* Line 291
LevelMap(heading_sizes) ==
    [z \in Range(heading_sizes) |->
        LevelName(CHOOSE i \in 1..Len(heading_sizes) : heading_sizes[i] = z)]

\* is_bold_or_emphasized(spans)
is_bold_or_emphasized(spans) ==
    \E i \in 1..Len(spans) :
        \/ (spans[i].flags \div 16) % 2 = 1
        \/ \E ind \in { <<"b","o","l","d">>, <<"b","l","a","c","k">>, <<"h","e","a","v","y">> } : Contains(Lower(spans[i].font), ind)

should_combine_lines_signed(line1_data, line2_data) ==
    /\ line2_data.bbox[2] - line1_data.bbox[4] <= 8
    /\ Abs(line1_data.font_size - line2_data.font_size) <= 1
    /\ Abs(line1_data.bbox[1] - line2_data.bbox[1]) <= 15

\* should_combine_lines(line1_data, line2_data, max_distance=8)
should_combine_lines(line1_data, line2_data) ==
    /\ Abs(line2_data.bbox[2] - line1_data.bbox[4]) <= 8
    /\ Abs(line1_data.font_size - line2_data.font_size) <= 1
    /\ Abs(line1_data.bbox[1] - line2_data.bbox[1]) <= 15

\* Lines 315-327: whether the line enters potential_lines.
IsPotentialLine(page_num, title, excluded_areas, line) ==
    LET text == LineText(line)
    IN  /\ line.spans # <<>>
        /\ ~is_text_in_table(line.bbox, excluded_areas)
        /\ text # <<>>
        /\ ~is_simple_junk(text)
        /\ ~(page_num = 0 /\ title # <<>> /\ Strip(text) = Strip(title))

\* Lines 329-335
RECURSIVE PotentialLines(_, _, _, _)
PotentialLines(page_num, title, excluded_areas, lines) ==
    IF lines = <<>> THEN <<>>
    ELSE (IF IsPotentialLine(page_num, title, excluded_areas, Head(lines))
          THEN << [ text      |-> LineText(Head(lines)),
                    font_size |-> Round10(Head(lines).spans[1].size),
                    bbox      |-> Head(lines).bbox,
                    is_bold   |-> is_bold_or_emphasized(Head(lines).spans) ] >>
          ELSE <<>>)
         \o PotentialLines(page_num, title, excluded_areas, Tail(lines))

\* Lines 343-346: the index after the last line of the run that starts at i.
RECURSIVE RunEnd(_, _)
RunEnd(potential_lines, j) ==
    IF j <= Len(potential_lines)
       /\ should_combine_lines(potential_lines[j - 1], potential_lines[j])
    THEN RunEnd(potential_lines, j + 1)
    ELSE j

\* combined_text of the run i..j-1
RunText(potential_lines, i, j) ==
    JoinSpace([k \in 1..(j - i) |-> potential_lines[i + k - 1].text])

\* re.search(r'\d+%|\$|<rupee>', text)
HasMoneyOrPercent(text) ==
    \/ \E i \in 1..(Len(text) - 1) : IsDigit(text[i]) /\ text[i + 1] = "%"
    \/ \E i \in 1..Len(text) : text[i] \in {"$", Rupee}

SizeRuleFiresFromThreeWords(text, first_span_size, level_map) ==
    /\ first_span_size \in DOMAIN level_map
    /\ WordCount(text) <= 20 /\ WordCount(text) >= 3 /\ Len(text) >= 3

\* Lines 357-359: the size rule fires.
SizeRuleFires(text, first_span_size, level_map) ==
    /\ first_span_size \in DOMAIN level_map
    /\ WordCount(text) <= 20 /\ WordCount(text) >= 1 /\ Len(text) >= 3

\* Lines 370-373: the bold rule fires.
BoldRuleFires(text, first_span_size, is_bold, body_size) ==
    /\ is_bold /\ first_span_size >= body_size
    /\ WordCount(text) <= 15 /\ WordCount(text) >= 1 /\ Len(text) >= 3
    /\ ~EndsWith(text, ".")
    /\ ~HasMoneyOrPercent(text)

BoldLevelNextAfterSizes(text, first_span_size, body_size, heading_sizes) ==
    Len(heading_sizes) + 1

\* Lines 375-377
BoldLevel(text, first_span_size, body_size, heading_sizes) ==
    LET level_num == IF first_span_size > body_size
                     THEN Len(heading_sizes) + 1 ELSE Len(heading_sizes) + 2
    IN  IF first_span_size = body_size /\ EndsWith(Strip(text), ":")
        THEN Len(heading_sizes) + 2 ELSE level_num

IsDuplicateNever(combined_text, seen_texts) == FALSE

\* Line 348: the run is skipped when its text was emitted before.
IsDuplicate(combined_text, seen_texts) == combined_text \in seen_texts

AppendHeadingInFront(headings, heading) == <<heading>> \o headings

\* Lines 360 and 379: headings.append(...)
AppendHeading(headings, heading) == Append(headings, heading)

\* Lines 339-386: the while loop from index i on; st is [headings, seen_texts].
RECURSIVE ProcessRuns(_, _, _, _)
ProcessRuns(st, potential_lines, i, ctx) ==
    IF i > Len(potential_lines) THEN st
    ELSE
      LET current_line == potential_lines[i]
          j == RunEnd(potential_lines, i + 1)
          text == RunText(potential_lines, i, j)
          size == current_line.font_size
          emit(level) ==
              [ headings   |-> AppendHeading(st.headings,
                                  [level |-> level, text |-> text, page |-> ctx.page_num + 1]),
                seen_texts |-> st.seen_texts \cup {text} ]
          next ==
              IF IsDuplicate(text, st.seen_texts) THEN st
              ELSE IF SizeRuleFires(text, size, ctx.level_map)
                   THEN emit(ctx.level_map[size])
              ELSE IF BoldRuleFires(text, size, current_line.is_bold, ctx.body_size)
                   THEN emit(LevelName(BoldLevel(text, size, ctx.body_size, ctx.heading_sizes)))
              ELSE st
      IN  ProcessRuns(next, potential_lines, j, ctx)

\* Lines 300-386 for one page; ctx is [page_num, title, body_size, heading_sizes, level_map].
ExtractPageHeadings(st, page, ctx) ==
    ProcessRuns(st,
                PotentialLines(ctx.page_num, ctx.title,
                               get_table_areas(page, page.fault), PageLines(page.blocks)),
                1, ctx)

(***************************************************************************)
(* Bounds of the checked instances.                                         *)
(***************************************************************************)
MaxPages == 2

MaxLines == 2

MaxTables == 3

MaxPdfs == 2

\* All sequences over S of length at most n.
RECURSIVE SeqsUpTo(_, _)
SeqsUpTo(S, n) ==
    IF n = 0 THEN {<<>>}
    ELSE LET shorter == SeqsUpTo(S, n - 1)
         IN  shorter \cup {Append(q, x) : q \in {r \in shorter : Len(r) = n - 1}, x \in S}

(***************************************************************************)
(* Building pages.  A line kind is [text, size, bold, x, y, spans]: the line *)
(* is 200 wide and 12 high and its text is cut into `spans` spans.           *)
(***************************************************************************)
MkSpan(text, size, bold) ==
    [ text |-> text, size |-> size,
      font |-> IF bold THEN <<"H","e","l","v","e","t","i","c","a","-","B","o","l","d">> ELSE <<"H","e","l","v","e","t","i","c","a">>, flags |-> 0 ]

\* The text in two spans, cut after its first word (the join puts the space back).
TwoSpans(text, size, bold) ==
    LET e == SkipNonSpaces(text, 1)
    IN  << MkSpan(SubSeq(text, 1, e - 1), size, bold),
           MkSpan(SubSeq(text, e + 1, Len(text)), size, bold) >>

MkLine(k, y) ==
    [ bbox  |-> <<k.x, y, k.x + 200, y + 12>>,
      spans |-> IF k.spans = 2 THEN TwoSpans(k.text, k.size, k.bold)
                ELSE <<MkSpan(k.text, k.size, k.bold)>> ]

\* One text block per line.
MkBlock(line) == [type |-> 0, bbox |-> line.bbox, lines |-> <<line>>]

MkPage(lines, tables, drawings, fault) ==
    [ width |-> 600, height |-> 800, tables |-> tables, drawings |-> drawings,
      blocks |-> [i \in 1..Len(lines) |-> MkBlock(lines[i])], fault |-> fault ]

\* Lines one under the other, 20 apart: the gap between two of them is 8.
StackedPage(kinds) ==
    MkPage([i \in 1..Len(kinds) |-> MkLine(kinds[i], 100 + 20 * (i - 1))],
           <<>>, <<>>, "none")

\* Lines at the top edges their kinds give.
PlacedPage(kinds) ==
    MkPage([i \in 1..Len(kinds) |-> MkLine(kinds[i], kinds[i].y)], <<>>, <<>>, "none")

Kind(text, size, bold, x, y, spans) ==
    [text |-> text, size |-> size, bold |-> bold, x |-> x, y |-> y, spans |-> spans]

MkDoc(metadata_title, pages) ==
    [metadata_title |-> metadata_title, pages |-> pages, openable |-> TRUE]

\* A file fitz.open cannot open.
UnopenableDoc == [metadata_title |-> <<>>, pages |-> <<>>, openable |-> FALSE]

BodyKind == Kind(<<"S","o","m","e"," ","b","o","d","y"," ","t","e","x","t"," ","h","e","r","e",".">>, 120, FALSE, 72, 0, 2)

\* A page on which page.get_text("dict") raises.
FaultyPage == MkPage(<<MkLine(BodyKind, 100)>>, <<>>, <<>>, "get_text")

(***************************************************************************)
(* The documents of Spec: pages of at most MaxLines lines out of two kinds   *)
(* (a 16-point line and a two-span 12-point line), and four pages that hold  *)
(* three levels of sizes, bold lines, a table and a provider fault.          *)
(***************************************************************************)
HeadKind == Kind(<<"I","n","t","r","o">>, 160, FALSE, 72, 0, 1)

OutlineKinds == {HeadKind, BodyKind}

LevelsPage ==
    StackedPage(<< Kind(<<"C","h","a","p","t","e","r"," ","O","n","e">>, 180, FALSE, 72, 0, 1),
                   Kind(<<"S","e","c","t","i","o","n"," ","A">>, 135, FALSE, 72, 0, 1),
                   BodyKind, BodyKind,
                   Kind(<<"f","i","n","e"," ","p","r","i","n","t">>, 90, FALSE, 72, 0, 1) >>)

BoldPage ==
    StackedPage(<< Kind(<<"I","n","t","r","o">>, 120, TRUE, 72, 0, 1),
                   Kind(<<"S","u","m","m","a","r","y"," ","o","f"," ","r","e","s","u","l","t","s",":">>, 125, TRUE, 120, 0, 1),
                   BodyKind >>)

TablePage ==
    MkPage(<< MkLine(Kind(<<"T","a","b","l","e"," ","C","e","l","l">>, 200, FALSE, 72, 0, 1), 100),
              MkLine(HeadKind, 200), MkLine(BodyKind, 300) >>,
           << <<60, 90, 300, 120>> >>, <<>>, "none")

OutlinePages ==
    {StackedPage(q) : q \in SeqsUpTo(OutlineKinds, MaxLines)}
        \cup {LevelsPage, BoldPage, TablePage, FaultyPage}

\* No metadata title and any pages; or a metadata title and the same page twice.
OutlineDocs ==
    {MkDoc(<<>>, ps) : ps \in SeqsUpTo(OutlinePages, MaxPages)}
        \cup {MkDoc(<<"R","e","p","o","r","t">>, <<p, p>>) : p \in OutlinePages}
        \cup {UnopenableDoc}

(***************************************************************************)
(* The documents of SpecTitle: a first page of at most MaxLines lines out of *)
(* seven kinds, placed at the top edges the kinds give (page height 800, so  *)
(* the top 40% ends at 320), followed by up to MaxPages - 1 plain pages; and *)
(* six metadata titles.                                                      *)
(***************************************************************************)
TitleKinds ==
    { Kind(<<"A"," ","S","t","u","d","y"," ","o","f"," ","O","u","t","l","i","n","e"," ","E","x","t","r","a","c","t","i","o","n">>, 200, FALSE, 72, 100, 1),
      Kind(<<"N","o","t","e","s"," ","o","n"," ","L","a","y","o","u","t"," ","S","i","g","n","a","l","s">>, 200, FALSE, 72, 150, 1),
      Kind(<<"A","n","n","u","a","l"," ","R","e","p","o","r","t"," ","S","u","m","m","a","r","y"," ","T","e","x","t",".">>, 200, FALSE, 72, 50, 1),
      Kind(<<"I","n","t","r","o">>, 240, FALSE, 72, 60, 1),
      Kind(<<"-"," ","-"," ","-"," ","-"," ","-"," ","-"," ","-">>, 240, FALSE, 72, 80, 1),
      Kind(<<"P","a","g","e"," ","3">>, 300, FALSE, 72, 40, 2),
      Kind(<<"L","o","w","e","r"," ","H","e","a","d","i","n","g"," ","O","f"," ","P","a","g","e">>, 400, FALSE, 72, 500, 1) }

PlainPage == StackedPage(<<HeadKind, BodyKind>>)

TitleFirstPages ==
    {PlacedPage(q) : q \in SeqsUpTo(TitleKinds, MaxLines)} \cup {FaultyPage}

\* None; plain; padded with blanks; blanks only; 100 characters; 99 characters
\* between blanks.
MetadataTitles ==
    { <<>>, <<"R","e","p","o","r","t">>, <<" "," ","P","a","d","d","e","d"," ","T","i","t","l","e"," ","\t">>, <<" "," "," ">>, Rep(<<"x">>, 100),
      <<" ">> \o Rep(<<"x">>, 99) \o <<" ">> }

TitleDocs ==
    {MkDoc(m, <<p>> \o rest) :
        m \in MetadataTitles, p \in TitleFirstPages,
        rest \in SeqsUpTo({PlainPage}, MaxPages - 1)}
        \cup {MkDoc(m, <<>>) : m \in MetadataTitles}
        \cup {UnopenableDoc}

(***************************************************************************)
(* State.  extract_outline: doc is the file, pc the place in the function,   *)
(* the rest its locals; result is what it returns.                           *)
(***************************************************************************)
VARIABLES doc, pc, title, font_counts, body_size, heading_sizes, level_map,
          headings, seen_texts, page_num, result

outlineVars == <<doc, pc, title, font_counts, body_size, heading_sizes, level_map,
                 headings, seen_texts, page_num, result>>

(***************************************************************************)
(* State of the specification of get_table_areas alone: the page, the place, *)
(* the list the function returned and the merge step applied to that list.   *)
(***************************************************************************)
VARIABLES rg_page, rg_pc, rg_areas, rg_again

regionVars == <<rg_page, rg_pc, rg_areas, rg_again>>

(***************************************************************************)
(* State of the batch driver (main.py): whether /app/input exists, the call  *)
(* outside the loop that raises (env_fault), the PDFs found, the loop index,  *)
(* the JSON file of each PDF in /app/output, how often each PDF was taken up, *)
(* the two counters and the exit status.  A PDF is [extract, write, errwrite]:*)
(* whether extract_outline raises on it, and how writing its result file and  *)
(* its error file ends ("ok", "open_fail": open raises, "dump_fail": json.dump*)
(* raises after the file was created).                                        *)
(***************************************************************************)
VARIABLES bpc, input_exists, env_fault, pdf_files, idx, out_files, attempts,
          successful, failed, exit_code

batchVars == <<bpc, input_exists, env_fault, pdf_files, idx, out_files, attempts,
               successful, failed, exit_code>>

(***************************************************************************)
(* State of the specification of several calls of extract_outline in one     *)
(* process: the files still to be handed to it and what the earlier calls    *)
(* gave.                                                                     *)
(***************************************************************************)
VARIABLES pending, earlier

sequenceVars == <<pending, earlier>>

vars == <<outlineVars, regionVars, batchVars, sequenceVars>>

SequenceIdle == pending = <<>> /\ earlier = <<>>

BatchIdle ==
    /\ bpc = "idle" /\ input_exists = FALSE /\ env_fault = "none" /\ pdf_files = <<>>
    /\ idx = 0 /\ out_files = <<>> /\ attempts = <<>> /\ successful = 0 /\ failed = 0
    /\ exit_code = "running"

OutlineIdle ==
    /\ doc = UnopenableDoc /\ pc = "idle" /\ title = <<>> /\ font_counts = <<>>
    /\ body_size = 0 /\ heading_sizes = <<>> /\ level_map = <<>> /\ headings = <<>>
    /\ seen_texts = {} /\ page_num = 0 /\ result = [kind |-> "none"]

RegionIdle ==
    /\ rg_page = MkPage(<<>>, <<>>, <<>>, "none") /\ rg_pc = "idle"
    /\ rg_areas = <<>> /\ rg_again = <<>>

total_pages == Len(doc.pages)

NoResult == [kind |-> "none"]

Returned(t, outline) == [kind |-> "returned", title |-> t, outline |-> outline]

\* f"Error opening PDF: {e}"
ErrorOpeningTitle == <<"E","r","r","o","r"," ","o","p","e","n","i","n","g"," ","P","D","F",":"," ","e">>

InitOutline(docs) ==
    /\ doc \in docs
    /\ pc = "open"
    /\ title = <<>>
    /\ font_counts = <<>>
    /\ body_size = 0
    /\ heading_sizes = <<>>
    /\ level_map = <<>>
    /\ headings = <<>>
    /\ seen_texts = {}
    /\ page_num = 0
    /\ result = NoResult
    /\ RegionIdle
    /\ BatchIdle

\* Lines 230-233
OpenFails ==
    /\ pc = "open" /\ ~doc.openable
    /\ result' = Returned(ErrorOpeningTitle, <<>>)
    /\ pc' = "done"
    /\ UNCHANGED <<doc, title, font_counts, body_size, heading_sizes, level_map,
                   headings, seen_texts, page_num>>
    /\ UNCHANGED <<regionVars, batchVars, sequenceVars>>

\* Lines 235-238
EmptyDocument ==
    /\ pc = "open" /\ doc.openable /\ total_pages = 0
    /\ result' = Returned(<<>>, <<>>)
    /\ pc' = "done"
    /\ UNCHANGED <<doc, title, font_counts, body_size, heading_sizes, level_map,
                   headings, seen_texts, page_num>>
    /\ UNCHANGED <<regionVars, batchVars, sequenceVars>>

\* Lines 240-257
ResolveTitle ==
    /\ pc = "open" /\ doc.openable /\ total_pages > 0
    /\ title' = extract_title_from_document(doc)
    /\ font_counts' = <<>>
    /\ page_num' = 0
    /\ pc' = "histogram"
    /\ UNCHANGED <<doc, body_size, heading_sizes, level_map, headings, seen_texts, result>>
    /\ UNCHANGED <<regionVars, batchVars, sequenceVars>>

\* Lines 259-282, one page
HistogramPage ==
    /\ pc = "histogram" /\ page_num < total_pages
    /\ doc.pages[page_num + 1].fault # "get_text"
    /\ font_counts' = HistogramOfPage(font_counts, doc.pages[page_num + 1])
    /\ page_num' = page_num + 1
    /\ UNCHANGED <<doc, pc, title, body_size, heading_sizes, level_map, headings,
                   seen_texts, result>>
    /\ UNCHANGED <<regionVars, batchVars, sequenceVars>>

\* Line 271: page.get_text("dict") raises and nothing in extract_outline catches it.
HistogramRaises ==
    /\ pc = "histogram" /\ page_num < total_pages
    /\ doc.pages[page_num + 1].fault = "get_text"
    /\ pc' = "raised"
    /\ UNCHANGED <<doc, title, font_counts, body_size, heading_sizes, level_map,
                   headings, seen_texts, page_num, result>>
    /\ UNCHANGED <<regionVars, batchVars, sequenceVars>>

\* Lines 284-286
NoFonts ==
    /\ pc = "histogram" /\ page_num = total_pages /\ font_counts = <<>>
    /\ result' = Returned(title, <<>>)
    /\ pc' = "done"
    /\ UNCHANGED <<doc, title, font_counts, body_size, heading_sizes, level_map,
                   headings, seen_texts, page_num>>
    /\ UNCHANGED <<regionVars, batchVars, sequenceVars>>

SeenTextsOfEarlierCall == seen_texts

\* Line 297: seen_texts = set()
NewSeenTexts == {}

\* Lines 288-297
BuildLevelMap ==
    /\ pc = "histogram" /\ page_num = total_pages /\ font_counts # <<>>
    /\ body_size' = BodySize(font_counts)
    /\ heading_sizes' = HeadingSizes(font_counts, body_size')
    /\ level_map' = LevelMap(heading_sizes')
    /\ headings' = <<>>
    /\ seen_texts' = NewSeenTexts
    /\ page_num' = 0
    /\ pc' = "extract"
    /\ UNCHANGED <<doc, title, font_counts, result>>
    /\ UNCHANGED <<regionVars, batchVars, sequenceVars>>

\* Lines 299-386, one page
ExtractPage ==
    /\ pc = "extract" /\ page_num < total_pages
    /\ LET st == ExtractPageHeadings(
                    [headings |-> headings, seen_texts |-> seen_texts],
                    doc.pages[page_num + 1],
                    [page_num |-> page_num, title |-> title, body_size |-> body_size,
                     heading_sizes |-> heading_sizes, level_map |-> level_map])
       IN  /\ headings' = st.headings
           /\ seen_texts' = st.seen_texts
    /\ page_num' = page_num + 1
    /\ UNCHANGED <<doc, pc, title, font_counts, body_size, heading_sizes, level_map, result>>
    /\ UNCHANGED <<regionVars, batchVars, sequenceVars>>

\* Lines 388-396
ReturnOutline ==
    /\ pc = "extract" /\ page_num = total_pages
    /\ result' = Returned(title, headings)
    /\ pc' = "done"
    /\ UNCHANGED <<doc, title, font_counts, body_size, heading_sizes, level_map,
                   headings, seen_texts, page_num>>
    /\ UNCHANGED <<regionVars, batchVars, sequenceVars>>

NextOutline ==
    \/ OpenFails
    \/ EmptyDocument
    \/ ResolveTitle
    \/ HistogramPage
    \/ HistogramRaises
    \/ NoFonts
    \/ BuildLevelMap
    \/ ExtractPage
    \/ ReturnOutline

Init == InitOutline(OutlineDocs) /\ SequenceIdle

Next == NextOutline

Spec == Init /\ [][Next]_vars

InitTitle == InitOutline(TitleDocs) /\ SequenceIdle

(***************************************************************************)
(* SpecSequence: extract_outline called on one file after the other in the   *)
(* same process, as the loop of process_pdfs_in_docker does.  The locals of  *)
(* the call that ended are left as they were: the next call binds each of    *)
(* them anew where the code does (lines 254, 257, 289-291, 296-297).  Every  *)
(* file has the metadata title "Report", so that no line is left out as the  *)
(* title.                                                                    *)
(***************************************************************************)
SequenceDocs ==
    {MkDoc(<<"R","e","p","o","r","t">>, <<p>>) : p \in OutlinePages}
        \cup {MkDoc(<<"R","e","p","o","r","t">>, <<>>), UnopenableDoc}

Raised == [kind |-> "raised"]

InitSequence ==
    /\ InitOutline(SequenceDocs)
    /\ pending \in {<<d>> : d \in SequenceDocs}
    /\ earlier = <<>>

\* main.py lines 106-111: the call for one file is over (it returned, or it
\* raised and the loop's handler caught it); extract_outline is called on the
\* next file.
NextDocument ==
    /\ pc \in {"done", "raised"} /\ pending # <<>>
    /\ earlier' = Append(earlier, IF pc = "done" THEN result ELSE Raised)
    /\ doc' = Head(pending)
    /\ pending' = Tail(pending)
    /\ pc' = "open"
    /\ result' = NoResult
    /\ UNCHANGED <<title, font_counts, body_size, heading_sizes, level_map, headings,
                   seen_texts, page_num>>
    /\ UNCHANGED <<regionVars, batchVars>>

NextSequence ==
    \/ NextOutline
    \/ NextDocument

SpecSequence == InitSequence /\ [][NextSequence]_vars

(***************************************************************************)
(* SpecRuns: extract_outline on one page of two body lines (at the foot of   *)
(* the page, first in block order) followed by at most MaxLines lines out of *)
(* the kinds below, each at its own place: 12 high, so a line at y = 120     *)
(* starts 8 under a line at y = 100, and a line at y = 121 starts 9 under    *)
(* it.  The body size is 12; 16, 17 and 18 are heading sizes.                *)
(***************************************************************************)
RunKinds ==
    { Kind(<<"A","l","p","h","a">>, 160, FALSE, 72, 100, 1),
      Kind(<<"B","e","t","a">>, 160, FALSE, 72, 120, 1),
      Kind(<<"G","a","m","m","a">>, 160, FALSE, 72, 121, 1),
      Kind(<<"D","e","l","t","a">>, 170, FALSE, 87, 120, 1),
      Kind(<<"E","p","s","i","l","o","n">>, 180, FALSE, 72, 120, 1),
      Kind(<<"Z","e","t","a">>, 160, FALSE, 88, 120, 1),
      Kind(<<"P","l","a","i","n">>, 120, FALSE, 72, 100, 1),
      Kind(<<"S","t","r","o","n","g">>, 120, TRUE, 72, 100, 1),
      Kind(<<"p","l","a","i","n">>, 120, FALSE, 72, 120, 1),
      Kind(<<"s","t","r","o","n","g">>, 120, TRUE, 72, 120, 1) }

BodyLines == << MkLine(BodyKind, 700), MkLine(BodyKind, 720) >>

RunPage(kinds) ==
    MkPage(BodyLines \o [i \in 1..Len(kinds) |-> MkLine(kinds[i], kinds[i].y)],
           <<>>, <<>>, "none")

\* Three lines, each within the tolerances of the one before it, the third
\* outside those of the first (18 against 16, x = 102 against 72).
ChainPage ==
    RunPage(<< Kind(<<"A","l","p","h","a">>, 160, FALSE, 72, 100, 1),
               Kind(<<"D","e","l","t","a">>, 170, FALSE, 87, 120, 1),
               Kind(<<"O","m","e","g","a">>, 180, FALSE, 102, 140, 1) >>)

RunDocs ==
    {MkDoc(<<"R","e","p","o","r","t">>, <<RunPage(q)>>) : q \in SeqsUpTo(RunKinds, MaxLines)}
        \cup {MkDoc(<<"R","e","p","o","r","t">>, <<pg>>) : pg \in {ChainPage, FaultyPage, StackedPage(<<>>)}}
        \cup {MkDoc(<<"R","e","p","o","r","t">>, <<>>), UnopenableDoc}

InitRuns == InitOutline(RunDocs) /\ SequenceIdle

SpecRuns == InitRuns /\ [][NextOutline]_vars

(***************************************************************************)
(* SpecBold: extract_outline on one page of two body lines followed by at    *)
(* most MaxLines lines out of the kinds below, 30 apart so that no two of    *)
(* them are merged.  The body size is 12.                                    *)
(***************************************************************************)
BoldKinds ==
    { Kind(<<"K","e","y"," ","f","i","n","d","i","n","g","s",":">>, 120, TRUE, 72, 100, 1),
      Kind(<<"O","v","e","r","v","i","e","w">>, 120, TRUE, 72, 130, 1),
      Kind(<<"O","v","e","r","v","i","e","w">>, 120, FALSE, 72, 160, 1),
      Kind(<<"D","o","n","e",".">>, 120, TRUE, 72, 190, 1),
      Kind(<<"U","p"," ","5","%"," ","t","o","d","a","y">>, 120, TRUE, 72, 220, 1),
      Kind(<<"1","0","0"," ","%"," ","s","u","r","e">>, 120, TRUE, 72, 250, 1),
      Kind(<<"C","o","s","t"," ","$","5">>, 120, TRUE, 72, 280, 1),
      Kind(<<"F","e","e"," ">> \o <<Rupee>> \o <<"9">>, 120, TRUE, 72, 310, 1),
      Kind(<<"w","o","r","d"," ","w","o","r","d"," ","w","o","r","d"," ","w","o","r","d"," ","w","o","r","d"," ","w","o","r","d"," ","w","o","r","d"," ","w","o","r","d"," ","w","o","r","d"," ","w","o","r","d"," ","w","o","r","d"," ","w","o","r","d"," ","w","o","r","d"," ","w","o","r","d"," ","w","o","r","d">>, 120, TRUE, 72, 340, 1),
      Kind(<<"w","o","r","d"," ","w","o","r","d"," ","w","o","r","d"," ","w","o","r","d"," ","w","o","r","d"," ","w","o","r","d"," ","w","o","r","d"," ","w","o","r","d"," ","w","o","r","d"," ","w","o","r","d"," ","w","o","r","d"," ","w","o","r","d"," ","w","o","r","d"," ","w","o","r","d"," ","w","o","r","d"," ","w","o","r","d">>, 120, TRUE, 72, 370, 1),
      Kind(<<"A","b">>, 120, TRUE, 72, 400, 1),
      Kind(<<"T","i","n","y"," ","b","o","l","d">>, 90, TRUE, 72, 430, 1),
      Kind(<<"H","e","a","d","i","n","g">>, 160, FALSE, 72, 460, 1),
      Kind(<<"B","i","g"," ","B","o","l","d">>, 160, TRUE, 72, 490, 1),
      Kind(<<"M","a","i","l"," ","a","@","b",".","c","o">>, 120, TRUE, 72, 520, 1),
      Kind(<<"@","b",".","c","o"," ","n","o","w">>, 120, TRUE, 72, 550, 1),
      Kind(<<"w","o","r","d"," ","w","o","r","d"," ","w","o","r","d"," ","w","o","r","d"," ","w","o","r","d"," ","w","o","r","d"," ","w","o","r","d"," ","w","o","r","d"," ","w","o","r","d"," ","w","o","r","d"," ","w","o","r","d"," ","w","o","r","d"," ","w","o","r","d"," ","w","o","r","d"," ","w","o","r","d"," ","w","o","r","d"," ","w","o","r","d"," ","w","o","r","d"," ","w","o","r","d"," ","w","o","r","d"," ","w","o","r","d">>, 160, TRUE, 72, 580, 1) }

BoldDocs ==
    {MkDoc(<<"R","e","p","o","r","t">>, <<RunPage(q)>>) : q \in SeqsUpTo(BoldKinds, MaxLines)}
        \cup {MkDoc(<<"R","e","p","o","r","t">>, <<pg>>) : pg \in {FaultyPage, StackedPage(<<>>)}}
        \cup {MkDoc(<<"R","e","p","o","r","t">>, <<>>), UnopenableDoc}

InitBold == InitOutline(BoldDocs) /\ SequenceIdle

SpecBold == InitBold /\ [][NextOutline]_vars

(***************************************************************************)
(* SpecRegions: get_table_areas on one page.  The tables are at most         *)
(* MaxTables out of five rectangles; the drawings and the blocks are one of  *)
(* the lists below; the fault is any of RegionFaults.                        *)
(***************************************************************************)
TableRects ==
    { <<50, 100, 150, 200>>, <<200, 100, 300, 200>>, <<100, 150, 250, 180>>,
      <<50, 100, 400, 120>>, <<300, 50, 380, 95>> }

\* Nothing; a frame; a rule too small to count and a drawing without a rect.
DrawingLists ==
    { <<>>,
      << [rect |-> <<40, 300, 400, 400>>] >>,
      << [rect |-> <<10, 10, 35, 20>>], [items |-> <<>>] >> }

ProseKind == Kind(Strip(Rep(<<"l","o","r","e","m"," ","i","p","s","u","m"," ">>, 10)), 120, FALSE, 100, 420, 1)

ProseLine(y) == MkBlock(MkLine(ProseKind, y))

RegionBlockLists ==
    { <<>>,
      << MkBlock(MkLine(Kind(<<"N","o","t","e",":"," ","k","e","e","p"," ","t","h","i","s"," ","i","n"," ","m","i","n","d">>, 120, FALSE, 72, 0, 1), 500)) >>,
      << ProseLine(420) >>,
      << ProseLine(420), ProseLine(440) >>,
      << ProseLine(420), ProseLine(440), ProseLine(460) >>,
      << MkBlock(MkLine(Kind(<<Bullet>> \o <<" ","f","i","r","s","t"," ","i","t","e","m">>, 120, FALSE, 60, 0, 1), 310)),
         MkBlock(MkLine(Kind(<<"S","E","C","T","I","O","N"," ","O","N","E">>, 120, FALSE, 60, 0, 1), 330)),
         [type |-> 1, bbox |-> <<60, 350, 200, 390>>, lines |-> <<>>] >> }

RegionPages ==
    { [ width |-> 600, height |-> 800, tables |-> t, drawings |-> d, blocks |-> b,
        fault |-> f ] :
        t \in SeqsUpTo(TableRects, MaxTables), d \in DrawingLists,
        b \in RegionBlockLists, f \in RegionFaults }

InitRegions ==
    /\ rg_page \in RegionPages
    /\ rg_pc = "start"
    /\ rg_areas = <<>>
    /\ rg_again = <<>>
    /\ OutlineIdle
    /\ BatchIdle
    /\ SequenceIdle

\* get_table_areas(page), lines 26-124.
RunGetTableAreas ==
    /\ rg_pc = "start"
    /\ rg_areas' = get_table_areas(rg_page, rg_page.fault)
    /\ rg_pc' = "merged"
    /\ UNCHANGED <<rg_page, rg_again, outlineVars, batchVars, sequenceVars>>

\* Lines 108-124 once more, on the list the function returned.
MergeAgain ==
    /\ rg_pc = "merged"
    /\ rg_again' = MergeAreas(rg_areas)
    /\ rg_pc' = "done"
    /\ UNCHANGED <<rg_page, rg_areas, outlineVars, batchVars, sequenceVars>>

NextRegions ==
    \/ RunGetTableAreas
    \/ MergeAgain

SpecRegions == InitRegions /\ [][NextRegions]_vars

(***************************************************************************)
(* SpecBatch: process_pdfs_in_docker under main.  extract_outline returns a  *)
(* dict with "title" and "outline" on each of its return paths (lines 233,   *)
(* 238, 286, 393 of heading_extractor.py), so the check of line 118 passes   *)
(* whenever it returns.  Logging is taken not to raise.                      *)
(***************************************************************************)
WriteOutcomes == {"ok", "open_fail", "dump_fail"}

PdfKinds ==
    { [extract |-> "ok", write |-> "ok", errwrite |-> "ok"] }
        \cup { [extract |-> "ok", write |-> w, errwrite |-> e] :
                  w \in {"open_fail", "dump_fail"}, e \in WriteOutcomes }
        \cup { [extract |-> "raise", write |-> "ok", errwrite |-> e] : e \in WriteOutcomes }

EnvFaults == {"none", "mkdir", "list_output"}

InitBatch ==
    /\ input_exists \in BOOLEAN
    /\ env_fault \in EnvFaults
    /\ pdf_files \in SeqsUpTo(PdfKinds, MaxPdfs)
    /\ bpc = "start"
    /\ idx = 0
    /\ out_files = [i \in 1..Len(pdf_files) |-> "absent"]
    /\ attempts = [i \in 1..Len(pdf_files) |-> 0]
    /\ successful = 0
    /\ failed = 0
    /\ exit_code = "running"
    /\ OutlineIdle
    /\ RegionIdle
    /\ SequenceIdle

\* Lines 107-149 run to the end for this PDF.
Succeeds(pdf) == pdf.extract = "ok" /\ pdf.write = "ok"

\* The JSON file when the try block is left by an exception: line 142 created
\* it when json.dump is what raised.
FileAfterTry(pdf, before) ==
    IF pdf.extract = "ok" /\ pdf.write = "dump_fail" THEN "partial" ELSE before

FileAfterHandlerNoWrite(pdf, before) == before

\* Lines 156-170: the error file is written; a failure to write it is logged.
FileAfterHandler(pdf, before) ==
    IF pdf.errwrite = "ok" THEN "error"
    ELSE IF pdf.errwrite = "dump_fail" THEN "partial"
    ELSE before

ExitStatusFailIfAnyFailed(n_failed) == IF n_failed > 0 THEN "failure" ELSE "success"

\* Lines 174-195 and 201-202: the loop over, main returns.
ExitStatusAfterLoop(n_failed) == "success"

\* Lines 88-90
NoInputDir ==
    /\ bpc = "start" /\ ~input_exists
    /\ exit_code' = "failure"
    /\ bpc' = "exited"
    /\ UNCHANGED <<input_exists, env_fault, pdf_files, idx, out_files, attempts,
                   successful, failed, outlineVars, regionVars, sequenceVars>>

\* Line 92 raises; lines 196-199 exit with status 1.
MkdirFails ==
    /\ bpc = "start" /\ input_exists /\ env_fault = "mkdir"
    /\ exit_code' = "failure"
    /\ bpc' = "exited"
    /\ UNCHANGED <<input_exists, env_fault, pdf_files, idx, out_files, attempts,
                   successful, failed, outlineVars, regionVars, sequenceVars>>

\* Lines 95-99
NoPdfs ==
    /\ bpc = "start" /\ input_exists /\ env_fault # "mkdir" /\ pdf_files = <<>>
    /\ exit_code' = "failure"
    /\ bpc' = "exited"
    /\ UNCHANGED <<input_exists, env_fault, pdf_files, idx, out_files, attempts,
                   successful, failed, outlineVars, regionVars, sequenceVars>>

\* Lines 101-106
StartLoop ==
    /\ bpc = "start" /\ input_exists /\ env_fault # "mkdir" /\ pdf_files # <<>>
    /\ bpc' = "loop"
    /\ idx' = 1
    /\ successful' = 0
    /\ failed' = 0
    /\ UNCHANGED <<input_exists, env_fault, pdf_files, out_files, attempts, exit_code,
                   outlineVars, regionVars, sequenceVars>>

\* Lines 107-149
ProcessOk ==
    /\ bpc = "loop" /\ idx <= Len(pdf_files) /\ Succeeds(pdf_files[idx])
    /\ out_files' = [out_files EXCEPT ![idx] = "result"]
    /\ attempts' = [attempts EXCEPT ![idx] = @ + 1]
    /\ successful' = successful + 1
    /\ idx' = idx + 1
    /\ UNCHANGED <<bpc, input_exists, env_fault, pdf_files, failed, exit_code,
                   outlineVars, regionVars, sequenceVars>>

\* Lines 107-172 with an exception in the try block
ProcessFault ==
    /\ bpc = "loop" /\ idx <= Len(pdf_files) /\ ~Succeeds(pdf_files[idx])
    /\ out_files' = [out_files EXCEPT
                        ![idx] = FileAfterHandler(pdf_files[idx],
                                                  FileAfterTry(pdf_files[idx], @))]
    /\ attempts' = [attempts EXCEPT ![idx] = @ + 1]
    /\ failed' = failed + 1
    /\ idx' = idx + 1
    /\ UNCHANGED <<bpc, input_exists, env_fault, pdf_files, successful, exit_code,
                   outlineVars, regionVars, sequenceVars>>

\* Line 180 raises; lines 196-199 exit with status 1.
ListingFails ==
    /\ bpc = "loop" /\ idx > Len(pdf_files) /\ env_fault = "list_output"
    /\ exit_code' = "failure"
    /\ bpc' = "exited"
    /\ UNCHANGED <<input_exists, env_fault, pdf_files, idx, out_files, attempts,
                   successful, failed, outlineVars, regionVars, sequenceVars>>

\* Lines 174-195
Finish ==
    /\ bpc = "loop" /\ idx > Len(pdf_files) /\ env_fault # "list_output"
    /\ exit_code' = ExitStatusAfterLoop(failed)
    /\ bpc' = "exited"
    /\ UNCHANGED <<input_exists, env_fault, pdf_files, idx, out_files, attempts,
                   successful, failed, outlineVars, regionVars, sequenceVars>>

NextBatch ==
    \/ NoInputDir
    \/ MkdirFails
    \/ NoPdfs
    \/ StartLoop
    \/ ProcessOk
    \/ ProcessFault
    \/ ListingFails
    \/ Finish

SpecBatch == InitBatch /\ [][NextBatch]_vars

SpecTitle == InitTitle /\ [][Next]_vars

(***************************************************************************)
(* Properties                                                               *)
(***************************************************************************)
TextsDistinct(outline) ==
    \A i, j \in 1..Len(outline) : i < j => outline[i].text # outline[j].text

\* C1: no two entries of the outline carry the same text, on one page or on
\* different pages: during the extraction sweep and in the returned result.
C1_NoRepeatedHeadingText ==
    /\ TextsDistinct(headings)
    /\ result.kind = "returned" => TextsDistinct(result.outline)

\* A returned outline with an entry whose text stands again, as a line of a
\* heading size, on a later page: the second one was suppressed.
C1_Witness ==
    /\ pc = "done" /\ result.kind = "returned"
    /\ \E i \in 1..Len(result.outline) :
         \E p \in (result.outline[i].page + 1)..total_pages :
           \E b \in 1..Len(doc.pages[p].blocks) :
             \E l \in 1..Len(doc.pages[p].blocks[b].lines) :
               LET line == doc.pages[p].blocks[b].lines[l]
               IN  /\ LineText(line) = result.outline[i].text
                   /\ Round10(line.spans[1].size) \in DOMAIN level_map

\* The spans the histogram sweep counts, found without the Counter: <<p, b, l,
\* k, z>> for span k, of rounded size z > 0, of line l of block b of page p, the
\* line lying outside the page's excluded regions.
CountedSpansOfPage(p) ==
    LET page == doc.pages[p]
        areas == get_table_areas(page, page.fault)
        open == {bl \in UNION { {<<b, l>> : l \in 1..Len(page.blocks[b].lines)} :
                                b \in 1..Len(page.blocks) } :
                    ~is_text_in_table(page.blocks[bl[1]].lines[bl[2]].bbox, areas)}
    IN  UNION { {<<p, bl[1], bl[2], k,
                   Round10(page.blocks[bl[1]].lines[bl[2]].spans[k].size)>> :
                    k \in 1..Len(page.blocks[bl[1]].lines[bl[2]].spans)} :
                bl \in open }

CountedSpans == UNION {CountedSpansOfPage(p) : p \in 1..total_pages}

SpansOfSize(counted, z) == Cardinality({c \in counted : c[5] = z})

LevelNumber(z) == Cardinality({w \in DOMAIN level_map : w >= z})

\* C8: the keys of the level map are exactly the histogram's sizes above the body
\* size, a size of maximal count; the k-th largest key maps to "H<k>", so a larger
\* key has a lower level number, and the body size is no key.
C8_LevelMap ==
    pc = "extract" =>
        LET counted == CountedSpans
        IN  /\ CounterSizes(font_counts) = {c[5] : c \in counted}
            /\ \A i \in 1..Len(font_counts) :
                  font_counts[i].count = SpansOfSize(counted, font_counts[i].size)
            /\ body_size \in CounterSizes(font_counts)
            /\ \A z \in CounterSizes(font_counts) :
                  SpansOfSize(counted, z) <= SpansOfSize(counted, body_size)
            /\ DOMAIN level_map = {z \in CounterSizes(font_counts) : z > body_size}
            /\ \A z \in DOMAIN level_map : level_map[z] = LevelName(LevelNumber(z))
            /\ \A s1, s2 \in DOMAIN level_map :
                  s1 > s2 => level_map[s1][2] < level_map[s2][2]
            /\ body_size \notin DOMAIN level_map

\* A level map of two keys, and a size below the body size in the histogram.
C8_Witness ==
    /\ pc = "extract"
    /\ Cardinality(DOMAIN level_map) >= 2
    /\ \E z \in CounterSizes(font_counts) : z < body_size

TitleResolved == pc \notin {"open", "raised"} /\ doc.openable /\ total_pages > 0

\* C6 as stated: a metadata title that is non-empty and under 100 characters is
\* the returned title, trimmed, whatever the pages are.
C6_Original ==
    (result.kind = "returned" /\ doc.openable
        /\ doc.metadata_title # <<>> /\ Len(doc.metadata_title) < 100)
    => result.title = Strip(doc.metadata_title)

\* C6 amended: for a document of at least one page, a metadata title that is
\* non-empty after trimming and then under 100 characters is the returned title.
C6_MetadataTitle ==
    (result.kind = "returned" /\ doc.openable /\ total_pages > 0
        /\ Strip(doc.metadata_title) # <<>> /\ Len(Strip(doc.metadata_title)) < 100)
    => result.title = Strip(doc.metadata_title)

\* A returned metadata title that had blanks to trim, on a document of two
\* pages whose first page offers title candidates of its own.
C6_Witness ==
    /\ result.kind = "returned" /\ doc.openable /\ total_pages >= 2
    /\ Strip(doc.metadata_title) # <<>> /\ Len(Strip(doc.metadata_title)) < 100
    /\ Strip(doc.metadata_title) # doc.metadata_title
    /\ LayoutTitle(doc) # <<>>
    /\ result.title = Strip(doc.metadata_title)

FirstPageCandidates ==
    LET first_page == doc.pages[1]
    IN  Range(TitleCandidates(first_page, get_table_areas(first_page, first_page.fault),
                              PageLines(first_page.blocks)))

RanksAbove(a, b) ==
    \/ a.font_size > b.font_size
    \/ (a.font_size = b.font_size /\ a.position < b.position)

GoodTitle(c) ==
    /\ WordCount(c.text) >= 3 /\ WordCount(c.text) <= 20
    /\ c.text[Len(c.text)] # "."
    /\ Len(c.text) >= 10

\* C7: without a metadata title, the title is the text of a candidate with 3 to
\* 20 words, no final period and 10 or more characters above which no such
\* candidate ranks (larger rounded size first, then topmost); without such a
\* candidate, of a candidate above which none ranks; without candidates, or when
\* the layout call raises, it is empty.
C7_LayoutTitle ==
    (TitleResolved /\ ~MetadataTitleUsed(doc)) =>
        LET cands == FirstPageCandidates
            good == {c \in cands : GoodTitle(c)}
        IN  IF doc.pages[1].fault = "get_text" \/ cands = {} THEN title = <<>>
            ELSE IF good # {}
                 THEN \E c \in good : title = c.text /\ \A d \in good : ~RanksAbove(d, c)
            ELSE \E c \in cands : title = c.text /\ \A d \in cands : ~RanksAbove(d, c)

\* Two candidates of one size qualify: the title is the upper one of the two.
C7_Witness ==
    /\ TitleResolved /\ ~MetadataTitleUsed(doc)
    /\ \E b, c \in FirstPageCandidates :
         /\ GoodTitle(b) /\ GoodTitle(c)
         /\ b.font_size = c.font_size /\ b.position < c.position
         /\ title = b.text

\* The empty title of a layout call that raised.
C7_WitnessFault ==
    /\ pc = "histogram" /\ ~MetadataTitleUsed(doc)
    /\ doc.pages[1].fault = "get_text" /\ title = <<>>

\* The texts of the lines of a page that is_simple_junk lets pass, in page order.
RECURSIVE CleanTexts(_)
CleanTexts(lines) ==
    IF lines = <<>> THEN <<>>
    ELSE (IF Head(lines).spans # <<>> /\ ~is_simple_junk(LineText(Head(lines)))
          THEN <<LineText(Head(lines))>> ELSE <<>>) \o CleanTexts(Tail(lines))

\* The texts that joining some of the entries of texts, in order, gives.
RECURSIVE JoinsOf(_)
JoinsOf(texts) ==
    IF texts = <<>> THEN {}
    ELSE LET rest == JoinsOf(Tail(texts))
         IN  {Head(texts)} \cup rest \cup {Head(texts) \o <<" ">> \o r : r \in rest}

\* C9 as stated: the layout-derived title is no text that is_simple_junk marks,
\* every heading is made of lines that is_simple_junk lets pass, and "Page 3" is
\* neither a heading nor the layout-derived title.
C9_Original ==
    /\ (TitleResolved /\ ~MetadataTitleUsed(doc) /\ title # <<>>)
          => (~is_simple_junk(title) /\ title # <<"P","a","g","e"," ","3">>)
    /\ \A i \in 1..Len(headings) :
          /\ headings[i].text \in
                JoinsOf(CleanTexts(PageLines(doc.pages[headings[i].page].blocks)))
          /\ headings[i].text # <<"P","a","g","e"," ","3">>

\* C2 as stated: no two rectangles of the list get_table_areas returns intersect.
C2_Original ==
    rg_pc \in {"merged", "done"} =>
        \A i, j \in 1..Len(rg_areas) : i < j => ~RectIntersects(rg_areas[i], rg_areas[j])

\* All orders of a list.
RECURSIVE Perms(_)
Perms(q) ==
    IF q = <<>> THEN {<<>>}
    ELSE UNION { {<<q[i]>> \o r :
                    r \in Perms([k \in 1..(Len(q) - 1) |-> IF k < i THEN q[k] ELSE q[k + 1]])} :
                 i \in 1..Len(q) }

\* C3 as stated: merging the merged list again changes nothing, and merging the
\* raw list in any other order gives the same set of boxes.
C3_Original ==
    rg_pc = "done" =>
        /\ Range(rg_again) = Range(rg_areas)
        /\ \A q \in Perms(CollectAreas(rg_page, rg_page.fault)) :
              Range(MergeAreas(q)) = Range(rg_areas)

\* C10 as stated: when table or drawing extraction raises, the list returned for
\* the page is empty.
C10_Original ==
    (rg_pc \in {"merged", "done"} /\ rg_page.fault \in {"find_tables", "get_drawings"})
        => rg_areas = <<>>

LoopOver == bpc \in {"loop", "exited"} /\ idx > Len(pdf_files) /\ pdf_files # <<>>

\* C4 as stated: when the loop ends every PDF was processed once, each PDF whose
\* processing raised has an error file, and each other PDF its result file.
C4_Original ==
    LoopOver =>
        \A i \in 1..Len(pdf_files) :
            /\ attempts[i] = 1
            /\ out_files[i] = IF Succeeds(pdf_files[i]) THEN "result" ELSE "error"

\* C4 amended: in the loop the next PDF can always be taken up; when the loop
\* ends every PDF was processed once and counted once, each PDF that did not
\* raise has its result file, and each PDF that raised has an error file if
\* writing the error file succeeded, and neither a result nor an error file if
\* writing it raised too.
C4_FaultIsolation ==
    /\ (bpc = "loop" /\ idx <= Len(pdf_files)) => ENABLED (ProcessOk \/ ProcessFault)
    /\ LoopOver =>
          /\ successful + failed = Len(pdf_files)
          /\ \A i \in 1..Len(pdf_files) :
                /\ attempts[i] = 1
                /\ Succeeds(pdf_files[i]) => out_files[i] = "result"
                /\ (~Succeeds(pdf_files[i]) /\ pdf_files[i].errwrite = "ok")
                      => out_files[i] = "error"
                /\ (~Succeeds(pdf_files[i]) /\ pdf_files[i].errwrite # "ok")
                      => out_files[i] \in {"absent", "partial"}

\* The loop is over: the first PDF raised and has its error file, the second
\* one has its result.
C4_Witness ==
    /\ LoopOver /\ Len(pdf_files) >= 2
    /\ ~Succeeds(pdf_files[1]) /\ out_files[1] = "error"
    /\ Succeeds(pdf_files[2]) /\ out_files[2] = "result"

\* C5 as stated: a failure exit only without the input directory or without PDFs.
C5_Original ==
    exit_code = "failure" => (~input_exists \/ pdf_files = <<>>)

\* C5 amended: a failure exit only without the input directory, without PDFs, or
\* when a call outside the per-PDF try block raised; a run with input, PDFs and
\* no such fault exits without failure, however many PDFs raised.
C5_ExitStatus ==
    /\ exit_code = "failure" => (~input_exists \/ pdf_files = <<>> \/ env_fault # "none")
    /\ (bpc = "exited" /\ input_exists /\ pdf_files # <<>> /\ env_fault = "none")
          => exit_code = "success"

\* Every PDF raised and the driver exited without failure.
C5_Witness ==
    /\ bpc = "exited" /\ exit_code = "success"
    /\ failed = Len(pdf_files) /\ failed >= 2
\* The filtered lines of page p (1-based) in block/line order, as the extraction
\* sweep builds them.
FilteredLines(p) ==
    PotentialLines(p - 1, title, get_table_areas(doc.pages[p], doc.pages[p].fault),
                   PageLines(doc.pages[p].blocks))

\* The texts of the runs of a filtered line list from index i on, in the order
\* of the runs' first lines.
RECURSIVE RunTextsFrom(_, _)
RunTextsFrom(potential_lines, i) ==
    IF i > Len(potential_lines) THEN <<>>
    ELSE LET j == RunEnd(potential_lines, i + 1)
         IN  <<RunText(potential_lines, i, j)>> \o RunTextsFrom(potential_lines, j)

\* The texts of the entries of page p, in outline order.
RECURSIVE TextsOfPage(_, _)
TextsOfPage(outline, p) ==
    IF outline = <<>> THEN <<>>
    ELSE (IF Head(outline).page = p THEN <<Head(outline).text>> ELSE <<>>)
         \o TextsOfPage(Tail(outline), p)

\* a is b with some elements left out.
RECURSIVE IsSubsequence(_, _)
IsSubsequence(a, b) ==
    IF a = <<>> THEN TRUE
    ELSE IF b = <<>> THEN FALSE
    ELSE IF Head(a) = Head(b) THEN IsSubsequence(Tail(a), Tail(b))
    ELSE IsSubsequence(a, Tail(b))

PagesInOrder(outline) ==
    /\ \A i \in 1..Len(outline) : outline[i].page \in 1..total_pages
    /\ \A i \in 1..(Len(outline) - 1) : outline[i].page <= outline[i + 1].page

LinesInOrder(outline) ==
    \A p \in 1..total_pages :
        LET texts == TextsOfPage(outline, p)
        IN  texts # <<>> => IsSubsequence(texts, RunTextsFrom(FilteredLines(p), 1))

\* C11: the outline is in page-then-line order: page numbers never decrease and
\* lie in 1..number of pages, and the entries of one page follow the order of
\* the first lines of their runs in the page's block/line sequence.  The page
\* numbers are in order during the extraction sweep already.
C11_PageThenLineOrder ==
    /\ pc = "extract" => PagesInOrder(headings)
    /\ (pc = "done" /\ result.kind = "returned" /\ doc.openable)
          => (PagesInOrder(result.outline) /\ LinesInOrder(result.outline))

\* A returned outline with an entry of one page followed by two entries of a
\* later page.
C11_Witness ==
    /\ pc = "done" /\ result.kind = "returned"
    /\ \E i, j, k \in 1..Len(result.outline) :
          /\ i < j /\ j < k
          /\ result.outline[i].page < result.outline[j].page
          /\ result.outline[j].page = result.outline[k].page

\* The histogram after the sweep over the pages (lines 257-282).
RECURSIVE HistogramOfPages(_, _)
HistogramOfPages(counts, pages) ==
    IF pages = <<>> THEN counts
    ELSE HistogramOfPages(HistogramOfPage(counts, Head(pages)), Tail(pages))

\* The headings after the extraction sweep over pages n+1.. (lines 296-386).
RECURSIVE HeadingsOfPages(_, _, _, _)
HeadingsOfPages(st, pages, n, ctx) ==
    IF n >= Len(pages) THEN st.headings
    ELSE HeadingsOfPages(
            ExtractPageHeadings(st, pages[n + 1],
                [page_num |-> n, title |-> ctx.title, body_size |-> ctx.body_size,
                 heading_sizes |-> ctx.heading_sizes, level_map |-> ctx.level_map]),
            pages, n + 1, ctx)

\* What extract_outline gives for d when d is the only file the process handles.
ExtractOutlineAlone(d) ==
    IF ~d.openable THEN Returned(ErrorOpeningTitle, <<>>)
    ELSE IF d.pages = <<>> THEN Returned(<<>>, <<>>)
    ELSE IF \E p \in 1..Len(d.pages) : d.pages[p].fault = "get_text" THEN Raised
    ELSE LET t == extract_title_from_document(d)
             counts == HistogramOfPages(<<>>, d.pages)
             body == BodySize(counts)
             sizes == HeadingSizes(counts, body)
         IN  IF counts = <<>> THEN Returned(t, <<>>)
             ELSE Returned(t, HeadingsOfPages(
                     [headings |-> <<>>, seen_texts |-> {}], d.pages, 0,
                     [title |-> t, body_size |-> body, heading_sizes |-> sizes,
                      level_map |-> LevelMap(sizes)]))

\* C12: the dedup set, the histogram and the level map are state of one call:
\* for a file B handled after a file A in the same process, extract_outline
\* gives what it gives for B alone (and raises exactly when it raises for B
\* alone).
C12_PerDocumentState ==
    earlier # <<>> =>
        /\ pc = "done" => result = ExtractOutlineAlone(doc)
        /\ pc = "raised" => ExtractOutlineAlone(doc) = Raised

\* The call for B returned an entry whose text the call for A had emitted too,
\* at another level.
C12_Witness ==
    /\ earlier # <<>> /\ earlier[1].kind = "returned"
    /\ pc = "done" /\ result.kind = "returned"
    /\ \E i \in 1..Len(earlier[1].outline), j \in 1..Len(result.outline) :
          /\ earlier[1].outline[i].text = result.outline[j].text
          /\ earlier[1].outline[i].level # result.outline[j].level

\* Line k of the filtered line list is merged with the line before it.
JoinsPrevious(lines, k) ==
    /\ k > 1
    /\ Abs(lines[k].bbox[2] - lines[k - 1].bbox[4]) <= 8
    /\ Abs(lines[k].font_size - lines[k - 1].font_size) <= 1
    /\ Abs(lines[k].bbox[1] - lines[k - 1].bbox[1]) <= 15

\* The indices at which a run starts.
RunStarts(lines) == {k \in 1..Len(lines) : ~JoinsPrevious(lines, k)}

\* The last index of the run that starts at s.
LastOfRun(lines, s) ==
    CHOOSE e \in s..Len(lines) :
        /\ \A k \in (s + 1)..e : JoinsPrevious(lines, k)
        /\ e = Len(lines) \/ ~JoinsPrevious(lines, e + 1)

\* The texts of the lines s..e joined by single spaces.
JoinedText(lines, s, e) == JoinSpace([k \in 1..(e - s + 1) |-> lines[s + k - 1].text])

\* Entry h is the run that starts at s, classified by the first line of the run.
EntryOfRun(h, lines, s) ==
    /\ h.text = JoinedText(lines, s, LastOfRun(lines, s))
    /\ \/ /\ lines[s].font_size \in DOMAIN level_map
          /\ h.level = level_map[lines[s].font_size]
       \/ /\ lines[s].font_size \notin DOMAIN level_map
          /\ lines[s].is_bold
          /\ lines[s].font_size >= body_size

\* The run that starts at s is due as an entry by the size of its first line.
DueBySize(lines, s) ==
    LET text == JoinedText(lines, s, LastOfRun(lines, s))
    IN  /\ lines[s].font_size \in DOMAIN level_map
        /\ WordCount(text) >= 1 /\ WordCount(text) <= 20 /\ Len(text) >= 3

\* C13: line i+1 of the filtered lines joins the run of line i exactly when its
\* top edge is at most 8 from line i's bottom edge (the distance of the two
\* edges, as line 222 takes it), the rounded sizes differ by at most 1 and the
\* left edges by at most 15; the run's text is its lines' texts joined by single
\* spaces, and the run is classified by the size and the bold flag of its first
\* line.  So every entry is one whole run of its page, at the level its first
\* line gives, and every run whose first line has a heading size and whose text
\* has 1 to 20 words and 3 characters is the text of an entry.
C13_LineAggregation ==
    (pc \in {"extract", "done"} /\ doc.openable) =>
        /\ \A i \in 1..Len(headings) :
              LET lines == FilteredLines(headings[i].page)
              IN  \E s \in RunStarts(lines) : EntryOfRun(headings[i], lines, s)
        /\ \A p \in 1..total_pages :
              (pc = "done" \/ page_num >= p) =>
                  LET lines == FilteredLines(p)
                  IN  \A s \in RunStarts(lines) :
                          DueBySize(lines, s) =>
                              \E i \in 1..Len(headings) :
                                  headings[i].text =
                                      JoinedText(lines, s, LastOfRun(lines, s))

\* The outline of the page of three chained lines: one entry, of all three
\* lines, at the level of the first line's size (16, the third of 18, 17, 16).
C13_Witness ==
    /\ pc = "done" /\ doc.pages = <<ChainPage>>
    /\ result.outline = << [level |-> LevelName(3), text |-> <<"A","l","p","h","a"," ","D","e","l","t","a"," ","O","m","e","g","a">>,
                            page |-> 1] >>

\* The pages the extraction sweep is through with.
ProcessedPages == IF pc = "done" THEN 1..total_pages ELSE 1..page_num

\* The runs of page p: the page, the index of the first line in the page's
\* filtered lines, the text, and the size and bold flag of the first line.
RunsOfPage(p) ==
    LET lines == FilteredLines(p)
    IN  { [ page      |-> p,
            start     |-> s,
            text      |-> JoinedText(lines, s, LastOfRun(lines, s)),
            font_size |-> lines[s].font_size,
            is_bold   |-> lines[s].is_bold ] : s \in RunStarts(lines) }

ProcessedRuns == UNION {RunsOfPage(p) : p \in ProcessedPages}

RunBefore(a, b) == a.page < b.page \/ (a.page = b.page /\ a.start < b.start)

SizeRuleHolds(r) ==
    /\ r.font_size \in DOMAIN level_map
    /\ WordCount(r.text) >= 1 /\ WordCount(r.text) <= 20 /\ Len(r.text) >= 3

BoldFallbackHolds(r) ==
    /\ ~SizeRuleHolds(r)
    /\ r.is_bold
    /\ r.font_size >= body_size
    /\ WordCount(r.text) >= 1 /\ WordCount(r.text) <= 15
    /\ Len(r.text) >= 3
    /\ r.text[Len(r.text)] # "."
    /\ ~\E k \in 1..Len(r.text) : r.text[k] \in {"$", Rupee}
    /\ ~\E k \in 2..Len(r.text) : r.text[k] = "%" /\ IsDigit(r.text[k - 1])

ExpectedLevel(r) ==
    IF SizeRuleHolds(r) THEN level_map[r.font_size]
    ELSE IF r.font_size > body_size
         THEN LevelName(Len(heading_sizes) + 1)
         ELSE LevelName(Len(heading_sizes) + 2)

\* C14: a run that is no duplicate and for which the size rule does not fire
\* is emitted exactly when its first line is bold and of a size >= the body
\* size and its text has 1 to 15 words, at least 3 characters, no final period,
\* no digit followed by '%', no '$' and no rupee sign; its level is N+1 for a
\* size above the body size and N+2 otherwise (N the number of heading sizes);
\* a run for which no rule fires leaves no entry and is not recorded as seen.
\* So the seen texts are the texts of the entries, every run for which a rule
\* holds has its text in the outline, and every entry is the first run of its
\* text for which a rule holds, at the level that run gives.
C14_BoldFallback ==
    (pc \in {"extract", "done"} /\ doc.openable /\ font_counts # <<>>) =>
        LET runs == ProcessedRuns
            firing == {r \in runs : SizeRuleHolds(r) \/ BoldFallbackHolds(r)}
        IN  /\ seen_texts = {headings[i].text : i \in 1..Len(headings)}
            /\ \A r \in firing : \E i \in 1..Len(headings) : headings[i].text = r.text
            /\ \A i \in 1..Len(headings) :
                  \E r \in firing :
                      /\ r.text = headings[i].text
                      /\ r.page = headings[i].page
                      /\ headings[i].level = ExpectedLevel(r)
                      /\ \A q \in firing : q.text = r.text => ~RunBefore(q, r)

\* A bold line "Overview" at the body size emitted at level N+2 = 2, after a
\* line "Overview" that is not bold and was dropped without being recorded.
C14_Witness ==
    /\ pc = "done" /\ result.kind = "returned"
    /\ result.outline = << [level |-> LevelName(2), text |-> <<"O","v","e","r","v","i","e","w">>, page |-> 1] >>
    /\ \E q, r \in RunsOfPage(1) :
          /\ q.text = <<"O","v","e","r","v","i","e","w">> /\ ~q.is_bold
          /\ r.text = <<"O","v","e","r","v","i","e","w">> /\ r.is_bold
          /\ RunBefore(q, r)

\* Block b of the page is prose: text of more than 10 words and more than 100
\* characters, first line indented more than 8% of the page width, width under
\* 85% of the page width.
IsProseBlock(page, b) ==
    LET text == BlockText(b)
    IN  /\ b.type = 0 /\ b.lines # <<>>
        /\ WordCount(text) > 10 /\ Len(text) > 100
        /\ b.lines[1].bbox[1] * 100 > page.width * 8
        /\ RectWidth(b.bbox) * 100 < page.width * 85

\* Block b neither overlaps a drawn rectangle nor lies inside an expanded one.
ClearOfDrawnRects(page, b) ==
    LET rects == DrawnRects(page.drawings)
    IN  \A i \in 1..Len(rects) :
            /\ ~RectIntersects(rects[i], b.bbox)
            /\ ~RectContains(RectGrow(rects[i], RectExpand), b.bbox)

\* C15 as stated: a prose block clear of the drawn rectangles whose padded box
\* was added to the excluded regions is the only block of the page at its
\* indentation: no other block has a first line starting within 15 units.
C15_Original ==
    rg_pc \in {"merged", "done"} =>
        \A j \in 1..Len(rg_page.blocks) :
            LET b == rg_page.blocks[j]
            IN  ( /\ IsProseBlock(rg_page, b)
                  /\ ClearOfDrawnRects(rg_page, b)
                  /\ \E i \in 1..Len(CollectAreas(rg_page, rg_page.fault)) :
                        CollectAreas(rg_page, rg_page.fault)[i] = RectGrow(b.bbox, BoxPadding)
                  /\ \E i \in 1..Len(rg_areas) :
                        RectContains(rg_areas[i], RectGrow(b.bbox, BoxPadding)) )
                => \A k \in 1..Len(rg_page.blocks) :
                      (k # j /\ rg_page.blocks[k].lines # <<>>)
                          => Abs(rg_page.blocks[k].lines[1].bbox[1] - b.lines[1].bbox[1])
                                >= IndentTolerance

\* The text holds an email address: somewhere in it an '@', word characters, a
\* dot and a word character.
HasEmailAddress(text) ==
    \E i \in 1..Len(text) :
        /\ text[i] = "@"
        /\ \E j \in (i + 2)..(Len(text) - 1) :
              /\ \A k \in (i + 1)..(j - 1) : IsWordChar(text[k])
              /\ text[j] = "."
              /\ IsWordChar(text[j + 1])

\* C16 as stated: is_simple_junk marks every line text that holds an email
\* address, wherever the address starts, so no such line is among the filtered
\* lines and no entry of the outline holds an address.
C16_Original ==
    (pc \in {"extract", "done"} /\ doc.openable) =>
        /\ \A p \in 1..total_pages :
              LET lines == PageLines(doc.pages[p].blocks)
              IN  \A k \in 1..Len(lines) :
                      (lines[k].spans # <<>> /\ HasEmailAddress(LineText(lines[k])))
                          => is_simple_junk(LineText(lines[k]))
        /\ \A i \in 1..Len(headings) : ~HasEmailAddress(headings[i].text)

\* C17: with the same pages and the same excluded regions in the histogram
\* sweep and in the extraction sweep, every run for which the bold fallback
\* holds has the body size as the size of its first line, and every level of
\* the outline is one of H1..HN or H(N+2), N the number of heading sizes: no
\* entry has the level H(N+1).
C17_NoLevelAfterSizes ==
    (pc \in {"extract", "done"} /\ doc.openable /\ font_counts # <<>>) =>
        /\ \A r \in ProcessedRuns : BoldFallbackHolds(r) => r.font_size = body_size
        /\ \A i \in 1..Len(headings) :
              headings[i].level \in
                  {LevelName(n) : n \in 1..Len(heading_sizes)}
                      \cup {LevelName(Len(heading_sizes) + 2)}

\* One heading size: a bold line of that size emitted at level 1 by the size
\* rule, and a bold line of the body size emitted at level 3.
C17_Witness ==
    /\ pc = "done" /\ result.kind = "returned" /\ heading_sizes = <<16>>
    /\ \E i, j \in 1..Len(result.outline) :
          /\ result.outline[i].text = <<"B","i","g"," ","B","o","l","d">>
          /\ result.outline[i].level = LevelName(1)
          /\ result.outline[j].level = LevelName(3)

====
